---- MODULE Spec2Model ----
(***************************************************************************)
(* Model of the process-tickets service: the upload route (app.py          *)
(* upload_pdf and split_and_upload.py split_and_upload_pdf), the           *)
(* process-ticket route (app.py process_ticket) and the helper             *)
(* sanitize_fields.                                                        *)
(*                                                                         *)
(* Three specifications share the variables:                               *)
(*   Spec         one POST /upload request                                 *)
(*   SpecTicket   one POST /process-ticket request                         *)
(*   SpecSanitize sanitize_fields applied once and then again              *)
(***************************************************************************)
EXTENDS Integers, Sequences, FiniteSets, TLC

\* ----------------------------------------------------------------- bounds
MaxPages == 4
MaxStrLen == 2
MaxReplyKeys == 1

VARIABLES
    \* ---- POST /upload
    upc,          \* position of the request in upload_pdf / split_and_upload_pdf
    nPages,       \* len(doc); -1 until fitz.open has returned
    page_num,     \* loop variable of split_and_upload_pdf (0-based)
    filename,     \* <<>> or <<f>>: the object key generated in this iteration
    pdf_url,      \* <<>> or <<u>>: the URL built in this iteration
    tickets,      \* the local list `tickets`
    tempFiles,    \* temporary files that exist on disk
    s3Objects,    \* the bucket: object key -> source page index stored under it
    rows,         \* rows created in the record store, in creation order
    log,          \* history of the external calls made by the loop
    nextUuid,     \* number of uuid4() values drawn so far
    result,       \* <<>> or <<summary>>: what split_and_upload_pdf returned
    response,     \* <<>> or <<r>>: the HTTP response of the request
    \* ---- POST /process-ticket
    tpc,              \* position of the request in process_ticket
    record_id,        \* data.get("recordId"); "" when missing
    record,           \* <<>> or <<r>>: the fetched record
    gpt_response_text,\* <<>> or <<text>>: the model's reply
    structured_data,  \* <<>> or <<d>>: the parsed reply
    parse_failed,     \* json.loads raised JSONDecodeError
    tcalls,           \* history of the external calls of the request
    patches,          \* update payloads sent to the record store
    tresponse,        \* <<>> or <<r>>: the HTTP response of the request
    \* ---- sanitize_fields on its own
    sanPc,
    sanIn,
    sanOnce,
    sanTwice

uploadVars == <<upc, nPages, page_num, filename, pdf_url, tickets, tempFiles,
                s3Objects, rows, log, nextUuid, result, response>>

ticketVars == <<tpc, record_id, record, gpt_response_text, structured_data,
                parse_failed, tcalls, patches, tresponse>>

sanVars == <<sanPc, sanIn, sanOnce, sanTwice>>

vars == <<uploadVars, ticketVars, sanVars>>

\* ------------------------------------------------------------ upload route

S3_BUCKET_NAME == "bucket"

tmp_path == [kind |-> "upload", n |-> 0]

tmp_page(p) == [kind |-> "page", n |-> p]

uuid4Fixed(n) == 1

uuid4(n) == n + 1

upload_file(bucket, key, page) ==
    [k \in (DOMAIN bucket) \cup {key} |-> IF k = key THEN page ELSE bucket[k]]

PageNumberZeroBased(p) == p

PageNumber(p) == p + 1

PdfUrlOf(f) == [bucket |-> S3_BUCKET_NAME, key |-> f]

airtable_payload(p, page_uuid, url) ==
    [PageNumber |-> PageNumber(p),
     PageUUID   |-> page_uuid,
     Attachment |-> [url |-> url, filename |-> <<"ticket-page", PageNumber(p)>>]]

tickets_after_always(t, status, p, url) ==
    Append(t, [page |-> PageNumber(p), pdf_url |-> url])

tickets_after(t, status, p, url) ==
    IF status = 200
    THEN Append(t, [page |-> PageNumber(p), pdf_url |-> url])
    ELSE t

summary_by_count(t) ==
    [success |-> Len(t) > 0, processed_count |-> Len(t), tickets |-> t]

summary(t) ==
    [success |-> TRUE, processed_count |-> Len(t), tickets |-> t]

UnhandledError == [status |-> 500, kind |-> "unhandled", count |-> 0]

UploadInit ==
    /\ upc = "idle"
    /\ nPages = -1
    /\ page_num = 0
    /\ filename = <<>>
    /\ pdf_url = <<>>
    /\ tickets = <<>>
    /\ tempFiles = {}
    /\ s3Objects = <<>>
    /\ rows = <<>>
    /\ log = <<>>
    /\ nextUuid = 0
    /\ result = <<>>
    /\ response = <<>>

\* upload_pdf, entry: validate the form, persist the incoming PDF
UploadPdf ==
    /\ upc = "idle"
    /\ \E form \in {"nofile", "noname", "ok"} :
         CASE form = "nofile" ->
                /\ response' = <<[status |-> 400, kind |-> "No file part", count |-> 0]>>
                /\ upc' = "ended"
                /\ UNCHANGED tempFiles
           [] form = "noname" ->
                /\ response' = <<[status |-> 400, kind |-> "No selected file", count |-> 0]>>
                /\ upc' = "ended"
                /\ UNCHANGED tempFiles
           [] OTHER ->
                /\ tempFiles' = tempFiles \cup {tmp_path}
                /\ upc' = "open"
                /\ UNCHANGED response
    /\ UNCHANGED <<nPages, page_num, filename, pdf_url, tickets, s3Objects,
                   rows, log, nextUuid, result>>

\* fitz.open(pdf_path): returns a document of n pages, or raises
FitzOpen ==
    /\ upc = "open"
    /\ \/ \E n \in 0..MaxPages :
            /\ nPages' = n
            /\ upc' = "loop"
            /\ UNCHANGED response
       \/ /\ upc' = "ended"
          /\ response' = <<UnhandledError>>
          /\ UNCHANGED nPages
    /\ UNCHANGED <<page_num, filename, pdf_url, tickets, tempFiles, s3Objects,
                   rows, log, nextUuid, result>>

\* loop body up to the upload: single-page document saved in a temporary file
SavePage ==
    /\ upc = "loop"
    /\ page_num < nPages
    /\ tempFiles' = tempFiles \cup {tmp_page(page_num)}
    /\ filename' = <<uuid4(nextUuid)>>
    /\ nextUuid' = nextUuid + 1
    /\ pdf_url' = <<>>
    /\ upc' = "upload"
    /\ UNCHANGED <<nPages, page_num, tickets, s3Objects, rows, log, result,
                   response>>

\* s3.upload_file(...): stores the object, or raises (nothing catches it)
S3Upload ==
    /\ upc = "upload"
    /\ \/ /\ s3Objects' = upload_file(s3Objects, filename[1], page_num)
          /\ pdf_url' = <<PdfUrlOf(filename[1])>>
          /\ log' = Append(log, [op |-> "upload", page |-> PageNumber(page_num), ok |-> TRUE, raised |-> FALSE])
          /\ upc' = "post"
          /\ UNCHANGED response
       \/ /\ log' = Append(log, [op |-> "upload", page |-> PageNumber(page_num), ok |-> FALSE, raised |-> TRUE])
          /\ upc' = "ended"
          /\ response' = <<UnhandledError>>
          /\ UNCHANGED <<s3Objects, pdf_url>>
    /\ UNCHANGED <<nPages, page_num, filename, tickets, tempFiles, rows,
                   nextUuid, result>>

\* requests.post(...) of the row, the status test, os.unlink of the page file
PostRecord ==
    /\ upc = "post"
    /\ \/ \E status \in {200, 422} :
            /\ rows' = IF status = 200
                       THEN Append(rows, airtable_payload(page_num, uuid4(nextUuid), pdf_url[1]))
                       ELSE rows
            /\ tickets' = tickets_after(tickets, status, page_num, pdf_url[1])
            /\ log' = Append(log, [op |-> "create", page |-> PageNumber(page_num), ok |-> status = 200, raised |-> FALSE])
            /\ tempFiles' = tempFiles \ {tmp_page(page_num)}
            /\ page_num' = page_num + 1
            /\ upc' = "loop"
            /\ UNCHANGED response
       \/ /\ log' = Append(log, [op |-> "create", page |-> PageNumber(page_num), ok |-> FALSE, raised |-> TRUE])
          /\ upc' = "ended"
          /\ response' = <<UnhandledError>>
          /\ UNCHANGED <<rows, tickets, tempFiles, page_num>>
    /\ nextUuid' = nextUuid + 1
    /\ UNCHANGED <<nPages, filename, pdf_url, s3Objects, result>>

\* end of the loop: the summary is returned
ReturnSummary ==
    /\ upc = "loop"
    /\ page_num >= nPages
    /\ result' = <<summary(tickets)>>
    /\ upc' = "respond"
    /\ UNCHANGED <<nPages, page_num, filename, pdf_url, tickets, tempFiles,
                   s3Objects, rows, log, nextUuid, response>>

\* upload_pdf, after the call: success message or the fixed failure response
UploadRespond ==
    /\ upc = "respond"
    /\ response' = IF result # <<>> /\ result[1].success
                   THEN <<[status |-> 200, kind |-> "Uploaded",
                           count |-> result[1].processed_count]>>
                   ELSE <<[status |-> 500, kind |-> "Failed to process PDF", count |-> 0]>>
    /\ upc' = "ended"
    /\ UNCHANGED <<nPages, page_num, filename, pdf_url, tickets, tempFiles,
                   s3Objects, rows, log, nextUuid, result>>

UploadNext ==
    \/ UploadPdf
    \/ FitzOpen
    \/ SavePage
    \/ S3Upload
    \/ PostRecord
    \/ ReturnSummary
    \/ UploadRespond

\* -------------------------------------------------- field values, strings

\* a JSON value of a field: null, a string (sequence of characters), or
\* something else (a number)
Null == [t |-> "null", s |-> <<>>]

Str(chars) == [t |-> "str", s |-> chars]

Num == [t |-> "num", s |-> <<>>]

Chars == {" ", "x"}

Strings == UNION {[1..n -> Chars] : n \in 0..MaxStrLen}

Values == {Null, Num} \cup {Str(c) : c \in Strings}

RECURSIVE lstrip(_)
lstrip(c) == IF c # <<>> /\ Head(c) = " " THEN lstrip(Tail(c)) ELSE c

RECURSIVE rstrip(_)
rstrip(c) ==
    IF c # <<>> /\ c[Len(c)] = " " THEN rstrip(SubSeq(c, 1, Len(c) - 1)) ELSE c

strip(c) == rstrip(lstrip(c))

IsEmptyStr(v) == v.t = "str" /\ v.s = <<>>

\* isinstance(v, str) and v.strip() == ""
IsBlank(v) == v.t = "str" /\ strip(v.s) = <<>>

sanitize_strip_values(fields) ==
    [k \in DOMAIN fields |->
        IF fields[k].t = "str"
        THEN (IF fields[k].s = <<>> THEN Null ELSE Str(strip(fields[k].s)))
        ELSE fields[k]]

sanitize_fields(fields) ==
    [k \in DOMAIN fields |-> IF IsBlank(fields[k]) THEN Null ELSE fields[k]]

TenKeys == {"Show Name", "Show Date", "Section", "Row", "Seat",
            "Agent Order ID", "Page Number", "Venue", "Price", "Time"}

AllKeys == TenKeys \cup {"Notes"}

EmptyMapping == [k \in {} |-> Null]

\* objects a reply can hold: up to MaxReplyKeys keys with any values, or
\* the ten prompted keys, each empty or set
SparseDicts ==
    UNION {[K -> Values] : K \in {S \in SUBSET AllKeys : Cardinality(S) <= MaxReplyKeys}}

FullDicts == [TenKeys -> {Str(<<>>), Str(<<"x">>)}]

ReplyDicts == SparseDicts \cup FullDicts

\* ---------------------------------------------------- process-ticket route

\* the reply text as a sequence of tokens: code-fence markers (three
\* backquotes followed by json: "fence_json"; three backquotes: "fence"),
\* and a body that is the text of a JSON object, of another JSON value, or
\* not JSON
Tok(kind, val) == [tok |-> kind, val |-> val]

FenceJson == Tok("fence_json", EmptyMapping)

Fence == Tok("fence", EmptyMapping)

WordJson == Tok("json", EmptyMapping)

Bodies == {Tok("object", d) : d \in ReplyDicts}
            \cup {Tok("scalar", EmptyMapping), Tok("prose", EmptyMapping)}

Prefixes == {<<>>, <<FenceJson>>, <<Fence>>, <<Fence, Fence>>}

Suffixes == {<<>>, <<Fence>>}

ReplyTexts == {pre \o <<b>> \o suf : pre \in Prefixes, b \in Bodies, suf \in Suffixes}

clean_openai_response(text) ==
    LET t1 == IF text # <<>> /\ Head(text) = FenceJson THEN Tail(text) ELSE text
        t2 == IF t1 # <<>> /\ Head(t1) = Fence THEN Tail(t1)
              ELSE IF t1 # <<>> /\ Head(t1) = FenceJson THEN <<WordJson>> \o Tail(t1)
              ELSE t1
        t3 == IF t2 # <<>> /\ t2[Len(t2)] = Fence THEN SubSeq(t2, 1, Len(t2) - 1) ELSE t2
    IN  t3

\* json.loads: [ok, isdict, val]; ok = FALSE is JSONDecodeError
json_loads(text) ==
    IF Len(text) = 1 /\ text[1].tok = "object"
    THEN [ok |-> TRUE, isdict |-> TRUE, val |-> text[1].val]
    ELSE IF Len(text) = 1 /\ text[1].tok = "scalar"
    THEN [ok |-> TRUE, isdict |-> FALSE, val |-> EmptyMapping]
    ELSE [ok |-> FALSE, isdict |-> FALSE, val |-> EmptyMapping]

FetchFailedNever(status) == FALSE

FetchFailed(status) == status # 200

\* `not attachments`: the field is absent or an empty list
NoAttachment(a) == a \in {"absent", "empty"}

Err(status, kind) == [status |-> status, kind |-> kind, fields |-> EmptyMapping]

Unhandled == Err(500, "unhandled")

TicketInit ==
    /\ tpc = "idle"
    /\ record_id = ""
    /\ record = <<>>
    /\ gpt_response_text = <<>>
    /\ structured_data = <<>>
    /\ parse_failed = FALSE
    /\ tcalls = <<>>
    /\ patches = <<>>
    /\ tresponse = <<>>

\* entry: recordId from the request body
TicketRequest ==
    /\ tpc = "idle"
    /\ \E rid \in {"", "rec123"} :
         /\ record_id' = rid
         /\ IF rid = ""
            THEN /\ tresponse' = <<Err(400, "Missing recordId")>>
                 /\ tpc' = "ended"
            ELSE /\ tpc' = "fetch"
                 /\ UNCHANGED tresponse
    /\ UNCHANGED <<record, gpt_response_text, structured_data, parse_failed,
                   tcalls, patches>>

\* GET of the record, the status test, the attachment test
FetchRecord ==
    /\ tpc = "fetch"
    /\ \/ \E status \in {200, 404}, att \in {"absent", "empty", "present"} :
            /\ tcalls' = Append(tcalls, [op |-> "fetch", ok |-> status = 200])
            /\ IF FetchFailed(status)
               THEN /\ tresponse' = <<Err(500, "Failed to fetch Airtable record")>>
                    /\ tpc' = "ended"
                    /\ UNCHANGED record
               ELSE /\ record' = <<[Attachment |-> att]>>
                    /\ IF NoAttachment(att)
                       THEN /\ tresponse' = <<Err(400, "No PDF attachment found")>>
                            /\ tpc' = "ended"
                       ELSE /\ tpc' = "download"
                            /\ UNCHANGED tresponse
       \/ /\ tcalls' = Append(tcalls, [op |-> "fetch", ok |-> FALSE])
          /\ tresponse' = <<Unhandled>>
          /\ tpc' = "ended"
          /\ UNCHANGED record
    /\ UNCHANGED <<record_id, gpt_response_text, structured_data, parse_failed,
                   patches>>

\* GET of the attachment
DownloadPdf ==
    /\ tpc = "download"
    /\ \/ \E status \in {200, 403} :
            /\ tcalls' = Append(tcalls, [op |-> "download", ok |-> status = 200])
            /\ IF status # 200
               THEN /\ tresponse' = <<Err(500, "Failed to download PDF")>>
                    /\ tpc' = "ended"
               ELSE /\ tpc' = "extract"
                    /\ UNCHANGED tresponse
       \/ /\ tcalls' = Append(tcalls, [op |-> "download", ok |-> FALSE])
          /\ tresponse' = <<Unhandled>>
          /\ tpc' = "ended"
    /\ UNCHANGED <<record_id, record, gpt_response_text, structured_data,
                   parse_failed, patches>>

\* pdfplumber: text of the pages, or an exception on bytes that are no PDF
ExtractText ==
    /\ tpc = "extract"
    /\ \/ /\ tcalls' = Append(tcalls, [op |-> "extract", ok |-> TRUE])
          /\ tpc' = "openai"
          /\ UNCHANGED tresponse
       \/ /\ tcalls' = Append(tcalls, [op |-> "extract", ok |-> FALSE])
          /\ tresponse' = <<Unhandled>>
          /\ tpc' = "ended"
    /\ UNCHANGED <<record_id, record, gpt_response_text, structured_data,
                   parse_failed, patches>>

\* the chat completion, inside try/except Exception
CallOpenAI ==
    /\ tpc = "openai"
    /\ \/ \E text \in ReplyTexts :
            /\ gpt_response_text' = <<text>>
            /\ tcalls' = Append(tcalls, [op |-> "openai", ok |-> TRUE])
            /\ tpc' = "parse"
            /\ UNCHANGED tresponse
       \/ /\ tcalls' = Append(tcalls, [op |-> "openai", ok |-> FALSE])
          /\ tresponse' = <<Err(500, "OpenAI API error")>>
          /\ tpc' = "ended"
          /\ UNCHANGED gpt_response_text
    /\ UNCHANGED <<record_id, record, structured_data, parse_failed, patches>>

ParseReplyUncaught ==
    /\ tpc = "parse"
    /\ LET parsed == json_loads(clean_openai_response(gpt_response_text[1]))
       IN  IF parsed.ok /\ parsed.isdict
           THEN /\ structured_data' = <<parsed.val>>
                /\ parse_failed' = FALSE
                /\ tpc' = "patch"
                /\ UNCHANGED tresponse
           ELSE /\ parse_failed' = ~parsed.ok
                /\ tresponse' = <<Unhandled>>
                /\ tpc' = "ended"
                /\ UNCHANGED structured_data
    /\ UNCHANGED <<record_id, record, gpt_response_text, tcalls, patches>>

\* clean_openai_response, json.loads with its except clause; a parsed value
\* that is no object makes sanitize_fields raise on .items()
ParseReply ==
    /\ tpc = "parse"
    /\ LET parsed == json_loads(clean_openai_response(gpt_response_text[1]))
       IN  IF ~parsed.ok
           THEN /\ structured_data' = <<EmptyMapping>>
                /\ parse_failed' = TRUE
                /\ tpc' = "patch"
                /\ UNCHANGED tresponse
           ELSE IF parsed.isdict
           THEN /\ structured_data' = <<parsed.val>>
                /\ parse_failed' = FALSE
                /\ tpc' = "patch"
                /\ UNCHANGED tresponse
           ELSE /\ tresponse' = <<Unhandled>>
                /\ tpc' = "ended"
                /\ UNCHANGED <<structured_data, parse_failed>>
    /\ UNCHANGED <<record_id, record, gpt_response_text, tcalls, patches>>

\* sanitize_fields, the PATCH of the record, the response
PatchRecord ==
    /\ tpc = "patch"
    /\ LET cleaned_fields == sanitize_fields(structured_data[1])
       IN  /\ patches' = Append(patches, [record_id |-> record_id, fields |-> cleaned_fields])
           /\ \/ \E status \in {200, 422} :
                   /\ tcalls' = Append(tcalls, [op |-> "patch", ok |-> status = 200])
                   /\ tresponse' =
                        IF status # 200
                        THEN <<Err(500, "Failed to update Airtable record")>>
                        ELSE <<[status |-> 200, kind |-> "Ticket processed successfully",
                                fields |-> cleaned_fields]>>
              \/ /\ tcalls' = Append(tcalls, [op |-> "patch", ok |-> FALSE])
                 /\ tresponse' = <<Unhandled>>
    /\ tpc' = "ended"
    /\ UNCHANGED <<record_id, record, gpt_response_text, structured_data,
                   parse_failed>>

TicketNext ==
    \/ TicketRequest
    \/ FetchRecord
    \/ DownloadPdf
    \/ ExtractText
    \/ CallOpenAI
    \/ ParseReply
    \/ PatchRecord

\* ------------------------------------------------ sanitize_fields on its own

SanIdle ==
    /\ sanPc = "idle"
    /\ sanIn = EmptyMapping
    /\ sanOnce = EmptyMapping
    /\ sanTwice = EmptyMapping

SanInit ==
    /\ sanPc = "input"
    /\ sanIn \in ReplyDicts
    /\ sanOnce = EmptyMapping
    /\ sanTwice = EmptyMapping

SanitizeOnce ==
    /\ sanPc = "input"
    /\ sanOnce' = sanitize_fields(sanIn)
    /\ sanPc' = "once"
    /\ UNCHANGED <<sanIn, sanTwice>>

SanitizeTwice ==
    /\ sanPc = "once"
    /\ sanTwice' = sanitize_fields(sanOnce)
    /\ sanPc' = "twice"
    /\ UNCHANGED <<sanIn, sanOnce>>

SanNext ==
    \/ SanitizeOnce
    \/ SanitizeTwice

\* ------------------------------------------------------------ specifications

Init == UploadInit /\ TicketInit /\ SanIdle

Next == UploadNext /\ UNCHANGED <<ticketVars, sanVars>>

Spec == Init /\ [][Next]_vars

InitTicket == UploadInit /\ TicketInit /\ SanIdle

NextTicket == TicketNext /\ UNCHANGED <<uploadVars, sanVars>>

SpecTicket == InitTicket /\ [][NextTicket]_vars

InitSanitize == UploadInit /\ TicketInit /\ SanInit

NextSanitize == SanNext /\ UNCHANGED <<uploadVars, ticketVars>>

SpecSanitize == InitSanitize /\ [][NextSanitize]_vars

\* ===================================================== upload route: claims

IsUpload(e) == e.op = "upload"

IsCreate(e) == e.op = "create"

Uploads == SelectSeq(log, IsUpload)

Creates == SelectSeq(log, IsCreate)

IsCreated(e) == e.op = "create" /\ e.ok

NoFailure == \A i \in 1..Len(log) : log[i].ok

UploadRaised == \E i \in 1..Len(log) : log[i].op = "upload" /\ log[i].raised

\* a record creation that returned a non-success status
RecordRefused(i) == log[i].op = "create" /\ ~log[i].ok /\ ~log[i].raised

\* C1: a PDF of N pages with no failed upload and no failed record creation
\* gives exactly N uploads and N record creations, rows numbered 1..N in
\* order, and a summary with success = true and processed_count = N.
C1_AllPagesRecorded ==
    (upc = "ended" /\ nPages >= 0 /\ NoFailure) =>
        /\ Len(Uploads) = nPages
        /\ Len(Creates) = nPages
        /\ Len(rows) = nPages
        /\ \A i \in 1..Len(rows) : rows[i].PageNumber = i
        /\ result # <<>>
        /\ result[1].success
        /\ result[1].processed_count = nPages

C1_Witness ==
    /\ upc = "ended"
    /\ nPages >= 2
    /\ NoFailure
    /\ Len(rows) = nPages

\* C2: a failed upload of one page abandons only that page: every page of
\* the document is still attempted and the summary is still returned, with
\* the failed page not counted.
C2_UploadFailureIsolated ==
    (upc = "ended" /\ UploadRaised) =>
        /\ result # <<>>
        /\ \A k \in 1..nPages : \E i \in 1..Len(log) :
               log[i].op = "upload" /\ log[i].page = k
        /\ \A i \in 1..Len(log) :
               (log[i].op = "upload" /\ log[i].raised) =>
                   \A j \in 1..Len(result[1].tickets) :
                       result[1].tickets[j].page # log[i].page

\* C3: a record creation that returns a non-success status leaves its page
\* out of tickets and of processed_count and the loop goes on with the next
\* page; a returned summary counts exactly the pages whose record creation
\* succeeded and lists them in increasing page order.
C3_RecordFailureIsolated ==
    /\ \A i \in 1..Len(log) : RecordRefused(i) =>
           /\ \A j \in 1..Len(tickets) : tickets[j].page # log[i].page
           /\ IF i < Len(log)
              THEN log[i+1].op = "upload" /\ log[i+1].page = log[i].page + 1
              ELSE /\ upc \in {"loop", "upload", "respond", "ended"}
                   /\ upc \in {"respond", "ended"} =>
                          (result # <<>> /\ log[i].page = nPages)
    /\ result # <<>> =>
           /\ result[1].processed_count = Len(SelectSeq(log, IsCreated))
           /\ Len(result[1].tickets) = Len(SelectSeq(log, IsCreated))
           /\ \A j \in 1..Len(result[1].tickets) :
                  result[1].tickets[j].page = SelectSeq(log, IsCreated)[j].page
           /\ \A j \in 1..(Len(result[1].tickets) - 1) :
                  result[1].tickets[j].page < result[1].tickets[j+1].page

C3_Witness ==
    /\ result # <<>>
    /\ \E i \in 1..Len(log) : RecordRefused(i) /\ i < Len(log) /\ log[Len(log)].ok
    /\ result[1].processed_count >= 1
    /\ result[1].processed_count < nPages

\* C8: when an upload request ends, none of the temporary files it created
\* (the persisted incoming PDF, the per-page PDFs) is left on disk.
C8_NoTempFileOutlivesRequest ==
    upc = "ended" => tempFiles = {}

\* C9: pages go strictly one after another: upload of page k, then record
\* creation for page k, then upload of page k+1; no record is created for a
\* page whose upload has not completed, and every row's attachment URL is
\* the URL of the object uploaded in the same iteration.
C9_StrictlySequential ==
    /\ \A i \in 1..Len(log) :
          /\ log[i].op = "create" =>
                 /\ i > 1
                 /\ log[i-1].op = "upload"
                 /\ log[i-1].ok
                 /\ log[i-1].page = log[i].page
          /\ log[i].op = "upload" =>
                 IF i = 1
                 THEN log[i].page = 1
                 ELSE /\ log[i-1].op = "create"
                      /\ log[i-1].page + 1 = log[i].page
    /\ \A i \in 1..Len(rows) :
          /\ rows[i].Attachment.url.bucket = S3_BUCKET_NAME
          /\ rows[i].Attachment.url.key \in DOMAIN s3Objects
          /\ s3Objects[rows[i].Attachment.url.key] + 1 = rows[i].PageNumber

C9_Witness ==
    /\ Len(rows) >= 2
    /\ Len(log) >= 4
    /\ upc = "ended"

\* C10: a returned summary always has success = true, however many record
\* creations failed; upload_pdf answers it with the success message carrying
\* processed_count and never with its fixed failure response.
C10_SummaryAlwaysSuccess ==
    /\ result # <<>> =>
           /\ result[1].success
           /\ upc = "ended" =>
                  response = <<[status |-> 200, kind |-> "Uploaded",
                                count |-> result[1].processed_count]>>
    /\ response # <<>> => response[1].kind # "Failed to process PDF"

C10_Witness ==
    /\ upc = "ended"
    /\ result # <<>>
    /\ nPages >= 2
    /\ result[1].processed_count = 0
    /\ response[1].status = 200

\* ============================================= process-ticket route: claims

AllBlanks(c) == \A j \in 1..Len(c) : c[j] = " "

\* C4: a missing record id, a non-success record fetch, a record without
\* attachment, a non-success download or a failed model call ends the request
\* with an error response: no later step runs and no update is ever sent; a
\* record without attachment gives a bad-request failure.
C4_FailureIsTerminal ==
    /\ \A i \in 1..Len(tcalls) :
          (tcalls[i].op # "patch" /\ ~tcalls[i].ok) =>
              /\ i = Len(tcalls)
              /\ tpc = "ended"
              /\ tresponse # <<>>
              /\ tresponse[1].status \in {400, 500}
              /\ patches = <<>>
    /\ (tpc # "idle" /\ record_id = "") =>
              /\ tpc = "ended"
              /\ tcalls = <<>>
              /\ tresponse # <<>>
              /\ tresponse[1].status = 400
              /\ tresponse[1].kind = "Missing recordId"
              /\ patches = <<>>
    /\ (record # <<>> /\ record[1].Attachment \in {"absent", "empty"}) =>
              /\ tpc = "ended"
              /\ Len(tcalls) = 1
              /\ tresponse # <<>>
              /\ tresponse[1].status = 400
              /\ tresponse[1].kind = "No PDF attachment found"
              /\ patches = <<>>

C4_Witness ==
    /\ tpc = "ended"
    /\ record # <<>>
    /\ record[1].Attachment = "absent"
    /\ tresponse[1].status = 400
    /\ patches = <<>>

\* C5 (as claimed): a reply that cannot be parsed does not fail the request;
\* the update is still sent and the mapping written has each of the ten
\* named fields present with the null sentinel.
C5_UnparseableWritesAllNull ==
    (parse_failed /\ tpc = "ended") =>
        /\ Len(patches) = 1
        /\ patches[1].fields = [k \in TenKeys |-> Null]

\* C5 (amended): a reply that is not valid JSON does not end the request:
\* the update is still sent, the mapping written is the empty mapping (no
\* keys), and the request succeeds exactly when that update returns success.
C5_UnparseableWritesEmpty ==
    parse_failed =>
        /\ tpc \in {"patch", "ended"}
        /\ tpc = "ended" =>
              /\ Len(patches) = 1
              /\ DOMAIN patches[1].fields = {}
              /\ tcalls[Len(tcalls)].op = "patch"
              /\ (tresponse[1].status = 200) <=> tcalls[Len(tcalls)].ok
              /\ tresponse[1].status = 200 => DOMAIN tresponse[1].fields = {}

C5_Witness ==
    /\ tpc = "ended"
    /\ parse_failed
    /\ Len(patches) = 1
    /\ tresponse[1].status = 200

\* C6 (as claimed): every update payload holds exactly the ten named keys,
\* null for a field the model left unset or returned empty, the model's
\* value otherwise, whatever keys the reply contained.
C6_PayloadHasTenKeys ==
    \A i \in 1..Len(patches) :
        /\ DOMAIN patches[i].fields = TenKeys
        /\ \A k \in TenKeys :
              patches[i].fields[k] =
                  IF \/ k \notin DOMAIN structured_data[1]
                     \/ structured_data[1][k] = Null
                     \/ (structured_data[1][k].t = "str" /\ AllBlanks(structured_data[1][k].s))
                  THEN Null
                  ELSE structured_data[1][k]

\* C6 (amended): every update payload holds exactly the keys of the parsed
\* reply (the ten named keys when the reply held exactly those, none when
\* the reply was not valid JSON), null for every key whose value is null or
\* an empty or whitespace-only string, the model's value for every other.
C6_PayloadKeysAreReplyKeys ==
    \A i \in 1..Len(patches) :
        /\ DOMAIN patches[i].fields = DOMAIN structured_data[1]
        /\ \A k \in DOMAIN structured_data[1] :
              patches[i].fields[k] =
                  IF \/ structured_data[1][k] = Null
                     \/ (structured_data[1][k].t = "str" /\ AllBlanks(structured_data[1][k].s))
                  THEN Null
                  ELSE structured_data[1][k]
        /\ (\E j \in 1..Len(gpt_response_text[1]) :
                gpt_response_text[1][j].tok = "object") =>
               \/ parse_failed
               \/ \E j \in 1..Len(gpt_response_text[1]) :
                      /\ gpt_response_text[1][j].tok = "object"
                      /\ DOMAIN patches[i].fields = DOMAIN gpt_response_text[1][j].val

C6_Witness ==
    /\ Len(patches) = 1
    /\ DOMAIN patches[1].fields = TenKeys
    /\ patches[1].fields["Show Name"] = Str(<<"x">>)
    /\ patches[1].fields["Venue"] = Null
    /\ structured_data[1]["Venue"] = Str(<<>>)

\* ================================================== sanitize_fields: claims

\* C7: sanitize_fields is idempotent, and both an empty-string value and a
\* null value come out as the null sentinel.
C7_SanitizeIdempotent ==
    sanPc = "twice" =>
        /\ sanTwice = sanOnce
        /\ DOMAIN sanOnce = DOMAIN sanIn
        /\ \A k \in DOMAIN sanIn :
              (sanIn[k] = Null \/ sanIn[k] = Str(<<>>)) => sanOnce[k] = Null

C7_Witness ==
    /\ sanPc = "twice"
    /\ \E k \in DOMAIN sanIn : sanIn[k] = Str(<<" ">>) /\ sanTwice[k] = Null

====
